---------------------------- MODULE Spec2Model ----------------------------
(***************************************************************************)
(* Model of batch_consolidator.py: content normalisation and hashing       *)
(* (BatchProjectConsolidator), the hash registry and the duplication       *)
(* analysis (SimilarityDetector).                                          *)
(*                                                                         *)
(* Conventions                                                             *)
(*  - A Python str is a sequence of characters; a character is a one-token *)
(*    TLA+ string ("a", ":", "SP", "TAB", "CR", "LF") and Ord gives its    *)
(*    code point, so that comparisons are Python's code-point comparisons. *)
(*  - A Python dict is an insertion-ordered sequence of <<key, value>>     *)
(*    pairs with distinct keys.                                            *)
(*  - hashlib.sha256(s.encode('utf-8')).hexdigest() is modelled as an      *)
(*    injective function of the hashed string: [sha256 |-> s].             *)
(*  - porcentaje_similitud is held in tenths of a percent (1000 = 100.0).  *)
(***************************************************************************)
EXTENDS Integers, Sequences, FiniteSets, TLC

VARIABLES
    files_dict,     \* the (path -> content) dict handed to the hashing functions
    disk_file,      \* a .java file of a submission as stored on disk
    hash_log,       \* a log of calls of the functions under study, with their results
    entregas,       \* the submissions on disk: student -> extracted (path -> raw content)
    database,       \* SimilarityDetector.database
    similarities,   \* the dict returned by the last detect_similarities(), or NoResult
    now,            \* the wall clock read by datetime.now()
    database_file,  \* consolidado/hashes_database.json as stored on disk
    run,            \* the position of process_all_submissions, or NoneValue outside a run
    report_file     \* consolidado/reporte_similitud.json as stored on disk

vars == <<files_dict, disk_file, hash_log, entregas, database, similarities, now,
          database_file, run, report_file>>

(***************************************************************************)
(* Bounds                                                                  *)
(***************************************************************************)
MaxFiles == 6        \* files of one project in the registry specification
MaxOrderFiles == 3   \* files of the dict whose insertion order is varied
MaxLen == 4          \* characters of a file content whose whitespace is varied
MaxLines == 2        \* lines of the file whose line endings are varied
MaxRaw == 2          \* characters of a raw file content in the ingestion specification
MaxUnique == 2001    \* files of one project in the specification of large projects
MaxNow == 1          \* seconds the clock advances while the registry is in use

(***************************************************************************)
(* Python str                                                              *)
(***************************************************************************)
Ord ==
    [c \in {"TAB", "LF", "CR", "SP", ":", "A", "B", "C", "D", "a", "b", "c", "d", "x", "y"} |->
        CASE c = "TAB" -> 9
          [] c = "LF"  -> 10
          [] c = "CR"  -> 13
          [] c = "SP"  -> 32
          [] c = ":"   -> 58
          [] c = "A"   -> 65
          [] c = "B"   -> 66
          [] c = "C"   -> 67
          [] c = "D"   -> 68
          [] c = "a"   -> 97
          [] c = "b"   -> 98
          [] c = "c"   -> 99
          [] c = "d"   -> 100
          [] c = "x"   -> 120
          [] c = "y"   -> 121]

\* str.isspace() on one character
IsSpace(c) == c \in {"TAB", "LF", "CR", "SP"}

\* Python's s < t on str
RECURSIVE StrLess(_, _)
StrLess(s, t) ==
    IF t = <<>> THEN FALSE
    ELSE IF s = <<>> THEN TRUE
    ELSE IF Ord[Head(s)] # Ord[Head(t)] THEN Ord[Head(s)] < Ord[Head(t)]
    ELSE StrLess(Tail(s), Tail(t))

\* the strings over an alphabet of length at most n
StrUpTo(alphabet, n) == UNION {[1..k -> alphabet] : k \in 0..n}

\* str.split(sep) for a one-character separator
RECURSIVE Split(_, _)
Split(s, sep) ==
    IF \A i \in 1..Len(s) : s[i] # sep THEN <<s>>
    ELSE LET i == CHOOSE j \in 1..Len(s) : s[j] = sep /\ \A k \in 1..(j - 1) : s[k] # sep
         IN  <<SubSeq(s, 1, i - 1)>> \o Split(SubSeq(s, i + 1, Len(s)), sep)

\* sep.join(parts)
RECURSIVE Join(_, _)
Join(parts, sep) ==
    IF parts = <<>> THEN <<>>
    ELSE IF Len(parts) = 1 THEN parts[1]
    ELSE parts[1] \o sep \o Join(Tail(parts), sep)

RECURSIVE LStrip(_)
LStrip(s) == IF s # <<>> /\ IsSpace(Head(s)) THEN LStrip(Tail(s)) ELSE s

RECURSIVE RStrip(_)
RStrip(s) == IF s # <<>> /\ IsSpace(s[Len(s)]) THEN RStrip(SubSeq(s, 1, Len(s) - 1)) ELSE s

\* mutant: only the leading whitespace is removed (lstrip)
StripLeadingOnly(s) == LStrip(s)

\* str.strip()
Strip(s) == RStrip(LStrip(s))

(***************************************************************************)
(* Python dict and list helpers                                            *)
(***************************************************************************)
\* list(d.keys())
DictKeys(d) == [i \in 1..Len(d) |-> d[i][1]]

\* list(d.values())
DictValues(d) == [i \in 1..Len(d) |-> d[i][2]]

\* k in d
DictHas(d, k) == \E i \in 1..Len(d) : d[i][1] = k

\* d[k]
DictGet(d, k) == d[CHOOSE i \in 1..Len(d) : d[i][1] = k][2]

\* mutant: the pair always goes last, also when the key exists
DictSetAppend(d, k, v) == Append(d, <<k, v>>)

\* d[k] = v: an existing key keeps its position, a new key goes last
DictSet(d, k, v) ==
    IF DictHas(d, k)
    THEN [i \in 1..Len(d) |-> IF d[i][1] = k THEN <<k, v>> ELSE d[i]]
    ELSE Append(d, <<k, v>>)

\* set(seq)
Range(seq) == {seq[i] : i \in 1..Len(seq)}

\* the insertion-ordered dicts path -> value over the given keys and values, at most n entries
Dicts(keys, values, n) ==
    {d \in UNION {[1..k -> keys \X values] : k \in 0..n} :
        \A i, j \in 1..Len(d) : i # j => d[i][1] # d[j][1]}

\* sorted(list of str)
RECURSIVE SortedStrs(_)
SortedStrs(strs) ==
    IF strs = {} THEN <<>>
    ELSE LET m == CHOOSE s \in strs : \A t \in strs : t = s \/ StrLess(s, t)
         IN  <<m>> \o SortedStrs(strs \ {m})

\* sorted(d.items()): the keys are distinct, so the pairs are ordered by key
SortedItems(d) ==
    LET ks == SortedStrs(Range(DictKeys(d)))
    IN  [i \in 1..Len(ks) |-> <<ks[i], DictGet(d, ks[i])>>]

(***************************************************************************)
(* BatchProjectConsolidator: normalisation and hashing                     *)
(***************************************************************************)
sha256(s) == [sha256 |-> s]

\* [line.strip() for line in content.split('\n') if line.strip()]
NormalizedLines(content) ==
    LET raw == Split(content, "LF")
        F[i \in 0..Len(raw)] ==
            IF i = 0 THEN <<>>
            ELSE IF Strip(raw[i]) # <<>> THEN Append(F[i - 1], Strip(raw[i])) ELSE F[i - 1]
    IN  F[Len(raw)]

calculate_file_hash(content) ==
    sha256(Join(NormalizedLines(content), <<"LF">>))

\* ''.join([f"{name}:{content}" for name, content in sorted_files])
Combined(sorted_files) ==
    LET F[i \in 0..Len(sorted_files)] ==
            IF i = 0 THEN <<>>
            ELSE F[i - 1] \o sorted_files[i][1] \o <<":">> \o sorted_files[i][2]
    IN  F[Len(sorted_files)]

\* mutant: the entries are concatenated in insertion order, without sorted()
calculate_project_hash_unsorted(fd) ==
    sha256(Combined(fd))

calculate_project_hash(fd) ==
    sha256(Combined(SortedItems(fd)))

\* hashes_dict of extract_java_files_with_hashes: one hash per file, in the order of the files
hashes_dict(fd) ==
    [i \in 1..Len(fd) |-> <<fd[i][1], calculate_file_hash(fd[i][2])>>]

\* mutant: the file is read without newline translation (newline='')
read_file_untranslated(bytes) == bytes

\* open(file_path, 'r', encoding=...).read(): text mode with newline=None
\* translates "\r\n" and a lone "\r" to "\n"
RECURSIVE read_file_safely(_)
read_file_safely(bytes) ==
    IF bytes = <<>> THEN <<>>
    ELSE IF Head(bytes) = "CR"
         THEN IF Len(bytes) >= 2 /\ bytes[2] = "LF"
              THEN <<"LF">> \o read_file_safely(SubSeq(bytes, 3, Len(bytes)))
              ELSE <<"LF">> \o read_file_safely(Tail(bytes))
         ELSE <<Head(bytes)>> \o read_file_safely(Tail(bytes))


(***************************************************************************)
(* Values shared by the specifications                                     *)
(***************************************************************************)
\* Python's None is the empty tuple; a present value v is <<v>>
NoneValue == <<>>

\* load_database() when hashes_database.json does not exist
EmptyDatabase ==
    [version |-> "1.0",
     ultima_actualizacion |-> NoneValue,
     total_proyectos |-> 0,
     proyectos |-> <<>>]

\* one call of the hashing functions on a files_dict: what was supplied, what came back
HashCall(fd) ==
    [input |-> fd,
     project_hash |-> calculate_project_hash(fd),
     file_hashes |-> Range(hashes_dict(fd))]

\* the log keeps the first call and the latest call
Logged(log, call) == IF log = <<>> THEN <<call>> ELSE <<log[1], call>>

(***************************************************************************)
(* SpecOrder: calculate_project_hash and extract_java_files_with_hashes on *)
(* one set of (path, content) pairs supplied in every insertion order      *)
(***************************************************************************)
OrderPaths == {<<"a">>, <<"a", "b">>, <<"b">>}
OrderContents == {<<>>, <<"x">>, <<"y">>}

InitOrder ==
    /\ files_dict \in Dicts(OrderPaths, OrderContents, MaxOrderFiles)
    /\ disk_file = NoneValue
    /\ hash_log = <<>>
    /\ entregas = <<>>
    /\ database = EmptyDatabase
    /\ similarities = NoneValue
    /\ now = 0
    /\ database_file = NoneValue
    /\ run = NoneValue
    /\ report_file = NoneValue

\* the functions are called on the dict as first supplied
CalculateHashes ==
    /\ hash_log = <<>>
    /\ hash_log' = Logged(hash_log, HashCall(files_dict))
    /\ UNCHANGED <<files_dict, disk_file, entregas, database, similarities, now, database_file, run, report_file>>

\* the same pairs are supplied with two neighbours exchanged, and hashed again
Reorder ==
    /\ hash_log # <<>>
    /\ \E i \in 1..(Len(files_dict) - 1) :
          files_dict' = [files_dict EXCEPT ![i] = files_dict[i + 1], ![i + 1] = files_dict[i]]
    /\ hash_log' = Logged(hash_log, HashCall(files_dict'))
    /\ UNCHANGED <<disk_file, entregas, database, similarities, now, database_file, run, report_file>>

NextOrder == CalculateHashes \/ Reorder

SpecOrder == InitOrder /\ [][NextOrder]_vars

\* C6: for a fixed set of (path, content) pairs, every insertion order of the
\* files_dict yields the same project hash and the same hash for each file.
C6_OrderInvariance ==
    \A i, j \in 1..Len(hash_log) :
        /\ hash_log[i].project_hash = hash_log[j].project_hash
        /\ hash_log[i].file_hashes = hash_log[j].file_hashes

\* the functions have been called on the same three pairs in two orders, the
\* second of which is not the sorted one
C6_Witness ==
    /\ Len(hash_log) = 2
    /\ Len(hash_log[2].input) = 3
    /\ hash_log[1].input # hash_log[2].input
    /\ Range(hash_log[1].input) = Range(hash_log[2].input)
    /\ SortedItems(hash_log[2].input) # hash_log[2].input

(***************************************************************************)
(* SpecWhitespace: calculate_file_hash on one file whose content is        *)
(* re-supplied after whitespace-only edits                                 *)
(***************************************************************************)
WsAlphabet == {"a", "SP", "LF"}
WsPath == <<"a">>

\* the index of the last "\n" at or before position p of s, 0 when there is none
LineStart(s, p) ==
    IF \E k \in 1..p : s[k] = "LF"
    THEN CHOOSE k \in 1..p : s[k] = "LF" /\ \A m \in (k + 1)..p : s[m] # "LF"
    ELSE 0

\* the index of the first "\n" after position p of s, Len(s) + 1 when there is none
LineEnd(s, p) ==
    IF \E k \in (p + 1)..Len(s) : s[k] = "LF"
    THEN CHOOSE k \in (p + 1)..Len(s) : s[k] = "LF" /\ \A m \in (p + 1)..(k - 1) : s[m] # "LF"
    ELSE Len(s) + 1

\* everything between the start of the line and position p is whitespace
InLeading(s, p) == \A m \in (LineStart(s, p) + 1)..p : IsSpace(s[m])

\* everything between position p and the end of the line is whitespace
InTrailing(s, p) == \A m \in (p + 1)..(LineEnd(s, p) - 1) : IsSpace(s[m])

InsertAt(s, p, c) == SubSeq(s, 1, p) \o <<c>> \o SubSeq(s, p + 1, Len(s))
RemoveAt(s, q) == SubSeq(s, 1, q - 1) \o SubSeq(s, q + 1, Len(s))

InitWhitespace ==
    /\ files_dict \in {<<<<WsPath, c>>>> : c \in StrUpTo(WsAlphabet, MaxLen)}
    /\ disk_file = NoneValue
    /\ hash_log = <<>>
    /\ entregas = <<>>
    /\ database = EmptyDatabase
    /\ similarities = NoneValue
    /\ now = 0
    /\ database_file = NoneValue
    /\ run = NoneValue
    /\ report_file = NoneValue

\* the file is hashed as first supplied
HashFile ==
    /\ hash_log = <<>>
    /\ hash_log' = Logged(hash_log, HashCall(files_dict))
    /\ UNCHANGED <<files_dict, disk_file, entregas, database, similarities, now, database_file, run, report_file>>

\* a whitespace character is added at the start or the end of a line (a "\n"
\* added there adds an empty or whitespace-only line), and the file is hashed again
AddWhitespace ==
    /\ hash_log # <<>>
    /\ Len(files_dict[1][2]) < MaxLen
    /\ \E p \in 0..Len(files_dict[1][2]), c \in {"SP", "LF"} :
          /\ InLeading(files_dict[1][2], p) \/ InTrailing(files_dict[1][2], p)
          /\ files_dict' = <<<<WsPath, InsertAt(files_dict[1][2], p, c)>>>>
    /\ hash_log' = Logged(hash_log, HashCall(files_dict'))
    /\ UNCHANGED <<disk_file, entregas, database, similarities, now, database_file, run, report_file>>

\* a whitespace character is removed from the start or the end of a line (a "\n"
\* next to an empty or whitespace-only line removes that line), and the file is
\* hashed again
RemoveWhitespace ==
    /\ hash_log # <<>>
    /\ \E q \in 1..Len(files_dict[1][2]) :
          /\ IsSpace(files_dict[1][2][q])
          /\ IF files_dict[1][2][q] = "LF"
             THEN InLeading(files_dict[1][2], q - 1) \/ InTrailing(files_dict[1][2], q)
             ELSE InLeading(files_dict[1][2], q) \/ InTrailing(files_dict[1][2], q - 1)
          /\ files_dict' = <<<<WsPath, RemoveAt(files_dict[1][2], q)>>>>
    /\ hash_log' = Logged(hash_log, HashCall(files_dict'))
    /\ UNCHANGED <<disk_file, entregas, database, similarities, now, database_file, run, report_file>>

NextWhitespace == HashFile \/ AddWhitespace \/ RemoveWhitespace

SpecWhitespace == InitWhitespace /\ [][NextWhitespace]_vars

\* C7: adding or removing leading or trailing whitespace on any line, or lines
\* that are empty or whitespace-only, leaves calculate_file_hash unchanged; the
\* text hashed is the non-empty trimmed lines joined by one "\n".
C7_WhitespaceInsensitive ==
    /\ \A i, j \in 1..Len(hash_log) : hash_log[i].file_hashes = hash_log[j].file_hashes
    /\ \A i \in 1..Len(hash_log) :
          LET text == hash_log[i].input[1][2]
              hashed == (CHOOSE e \in hash_log[i].file_hashes : TRUE)[2].sha256
              lines == Split(hashed, "LF")
          IN  \/ hashed = <<>>
              \/ \A k \in 1..Len(lines) :
                    /\ lines[k] # <<>>
                    /\ ~IsSpace(lines[k][1])
                    /\ ~IsSpace(lines[k][Len(lines[k])])

\* a file with two non-empty lines has been hashed, and hashed again after
\* whitespace edits made it differ from the first text
C7_Witness ==
    /\ Len(hash_log) = 2
    /\ hash_log[1].input # hash_log[2].input
    /\ Len(Split((CHOOSE e \in hash_log[2].file_hashes : TRUE)[2].sha256, "LF")) = 2

(***************************************************************************)
(* SpecNewline: calculate_file_hash on one file written with each of the   *)
(* three line-ending conventions                                           *)
(***************************************************************************)
LineAlphabet == {"a", "SP"}
Conventions == {"LF", "CRLF", "CR"}

Eol(convention) ==
    CASE convention = "LF"   -> <<"LF">>
      [] convention = "CRLF" -> <<"CR", "LF">>
      [] convention = "CR"   -> <<"CR">>

\* the characters of the file: its lines separated by the convention's line
\* ending, with or without one after the last line
Rendered(f) ==
    Join(f.lines, Eol(f.eol)) \o (IF f.terminated /\ f.lines # <<>> THEN Eol(f.eol) ELSE <<>>)

\* one hashing of the file: of its characters as they are, and of what
\* read_file_safely returns for them (what extract_java_files_with_hashes hashes)
FileHashCall(f) ==
    [input |-> f,
     of_content |-> calculate_file_hash(Rendered(f)),
     of_read |-> calculate_file_hash(read_file_safely(Rendered(f)))]

InitNewline ==
    /\ files_dict = <<>>
    /\ disk_file \in [lines : UNION {[1..k -> StrUpTo(LineAlphabet, 2)] : k \in 0..MaxLines},
                      eol : Conventions,
                      terminated : BOOLEAN]
    /\ hash_log = <<>>
    /\ entregas = <<>>
    /\ database = EmptyDatabase
    /\ similarities = NoneValue
    /\ now = 0
    /\ database_file = NoneValue
    /\ run = NoneValue
    /\ report_file = NoneValue

\* the file is hashed as first written
HashDiskFile ==
    /\ hash_log = <<>>
    /\ hash_log' = Logged(hash_log, FileHashCall(disk_file))
    /\ UNCHANGED <<files_dict, disk_file, entregas, database, similarities, now, database_file, run, report_file>>

\* the same lines are written with another convention, and hashed again
ConvertLineEndings ==
    /\ hash_log # <<>>
    /\ \E e \in Conventions \ {disk_file.eol} : disk_file' = [disk_file EXCEPT !.eol = e]
    /\ hash_log' = Logged(hash_log, FileHashCall(disk_file'))
    /\ UNCHANGED <<files_dict, entregas, database, similarities, now, database_file, run, report_file>>

NextNewline == HashDiskFile \/ ConvertLineEndings

SpecNewline == InitNewline /\ [][NextNewline]_vars

\* C8 as stated: calculate_file_hash returns the same hash for two contents
\* that consist of the same lines and differ only in the line-ending
\* convention (LF, CRLF or CR).
C8_AnyConvention ==
    \A i, j \in 1..Len(hash_log) : hash_log[i].of_content = hash_log[j].of_content

\* C8 amended: calculate_file_hash returns the same hash for the LF and the
\* CRLF form of the same lines; the CR form gets that hash too once it has
\* been read by read_file_safely, as every hashed file of a submission is.
C8_LfCrlfAndRead ==
    \A i, j \in 1..Len(hash_log) :
        /\ (hash_log[i].input.eol # "CR" /\ hash_log[j].input.eol # "CR")
              => hash_log[i].of_content = hash_log[j].of_content
        /\ hash_log[i].of_read = hash_log[j].of_read
        /\ hash_log[i].input.eol = "LF" => hash_log[i].of_read = hash_log[i].of_content

\* a file of two non-blank lines has been hashed in the CRLF form and in
\* another form
C8_Witness ==
    /\ Len(hash_log) = 2
    /\ hash_log[1].input.eol = "CRLF"
    /\ hash_log[2].input.eol # "CRLF"
    /\ Len(hash_log[1].input.lines) = 2
    /\ Len(Split(hash_log[1].of_content.sha256, "LF")) = 2

(***************************************************************************)
(* SimilarityDetector: the registry                                        *)
(***************************************************************************)
MinCommonFiles == 3     \* len(common_hashes) >= 3
MinCopias == 3          \* a file hash held by at least 3 different students

\* the ProjectRecord stored by add_project
ProjectRecord(project_hash, file_hashes, total_files, total_lines) ==
    [fecha_procesado |-> now,
     hash_proyecto |-> project_hash,
     archivos |-> file_hashes,
     total_archivos |-> total_files,
     total_lineas |-> total_lines]

\* mutant: the call also stamps the registry, as save_database does
add_project_stamped(db, student_name, project_hash, file_hashes, total_files, total_lines) ==
    [db EXCEPT !.proyectos =
                  DictSet(db.proyectos, student_name,
                          ProjectRecord(project_hash, file_hashes, total_files, total_lines)),
               !.ultima_actualizacion = <<now>>]

\* self.database["proyectos"][student_name] = {...}
add_project(db, student_name, project_hash, file_hashes, total_files, total_lines) ==
    [db EXCEPT !.proyectos =
        DictSet(db.proyectos, student_name,
                ProjectRecord(project_hash, file_hashes, total_files, total_lines))]

(***************************************************************************)
(* SimilarityDetector.detect_similarities                                  *)
(***************************************************************************)
\* mutant: d[k] = [x], the list of the key is overwritten
ListAppendOverwrite(d, k, x) == DictSet(d, k, <<x>>)

\* defaultdict(list): d[k].append(x)
ListAppend(d, k, x) ==
    IF DictHas(d, k) THEN DictSet(d, k, Append(DictGet(d, k), x)) ELSE Append(d, <<k, <<x>>>>)

\* identical_groups: {hash_proyecto: [students]}, in the order of the registry
identical_groups(proyectos) ==
    LET F[i \in 0..Len(proyectos)] ==
            IF i = 0 THEN <<>>
            ELSE ListAppend(F[i - 1], proyectos[i][2].hash_proyecto, proyectos[i][1])
    IN  F[Len(proyectos)]

\* file_hash_map: {file hash: [(student, file name)]}, in the order of the registry
file_hash_map(proyectos) ==
    LET AddFiles(m, student, archivos) ==
            LET G[k \in 0..Len(archivos)] ==
                    IF k = 0 THEN m
                    ELSE ListAppend(G[k - 1], archivos[k][2], <<student, archivos[k][1]>>)
            IN  G[Len(archivos)]
        F[i \in 0..Len(proyectos)] ==
            IF i = 0 THEN <<>>
            ELSE AddFiles(F[i - 1], proyectos[i][1], proyectos[i][2].archivos)
    IN  F[Len(proyectos)]

\* mutant: a group is reported as soon as it has one member
IsCopyGroupAny(group) == Len(group[2]) > 0

\* len(students) > 1
IsCopyGroup(group) == Len(group[2]) > 1

\* the proyectos_identicos list
proyectos_identicos(proyectos) ==
    LET groups == SelectSeq(identical_groups(proyectos), IsCopyGroup)
    IN  [g \in 1..Len(groups) |->
            LET project_data == DictGet(proyectos, groups[g][2][1])
            IN  [hash_proyecto |-> groups[g][1],
                 alumnos |-> SortedStrs(Range(groups[g][2])),
                 porcentaje_similitud |-> 1000,
                 archivos_identicos |-> project_data.total_archivos,
                 total_lineas |-> project_data.total_lineas]]

\* round(num / den * 100, 1), in tenths of a percent: the quotient rounded to the
\* nearest tenth. An exact tie goes to the even tenth here. The float computation
\* differs from this only at some exact ties (the first is 23/80, where the
\* float product falls just under 28.75); the ties reached with the inputs of
\* the specifications below (1999/2000 among them) round the same way.
RoundedPercent(num, den) ==
    LET q == (num * 1000) \div den
        r == (num * 1000) % den
    IN  IF 2 * r < den THEN q
        ELSE IF 2 * r > den THEN q + 1
        ELSE IF q % 2 = 0 THEN q ELSE q + 1

\* common_hash[:16] + "...": the displayed prefix of a digest
Shortened(h) == [first16 |-> h.sha256]

\* the permutations of a finite set, as sequences: the orders in which Python
\* may iterate over a set of str
RECURSIVE Orders(_)
Orders(S) ==
    IF S = {} THEN {<<>>}
    ELSE UNION {{<<x>> \o o : o \in Orders(S \ {x})} : x \in S}

\* the first file name of files_a that carries the hash
FirstNameWith(files_a, h) ==
    files_a[CHOOSE i \in 1..Len(files_a) :
                files_a[i][2] = h /\ \A k \in 1..(i - 1) : files_a[k][2] # h][1]

\* mutant: every matching (file of A, file of B) pair counts, as before the fix
CommonCountCartesian(files_a, files_b) ==
    Cardinality({<<i, j>> \in (1..Len(files_a)) \X (1..Len(files_b)) :
                    files_a[i][2] = files_b[j][2]})

\* len(common_hashes)
CommonCount(files_a, files_b) ==
    Cardinality(Range(DictValues(files_a)) \cap Range(DictValues(files_b)))

\* mutant: the smaller of the two file counts, as before the fix
TotalFilesMinRaw(files_a, files_b) ==
    IF Len(files_a) <= Len(files_b) THEN Len(files_a) ELSE Len(files_b)

\* total_files_min = min(len(hashes_a), len(hashes_b))
TotalFilesMin(files_a, files_b) ==
    LET na == Cardinality(Range(DictValues(files_a)))
        nb == Cardinality(Range(DictValues(files_b)))
    IN  IF na <= nb THEN na ELSE nb

\* mutant: the threshold is met by two common hashes
EnoughCommonTwo(n) == n >= 2

\* len(common_hashes) >= 3
EnoughCommon(n) == n >= MinCommonFiles

\* mutant: pairs of identical projects are not filtered out
NotIdenticalAlways(record_a, record_b) == TRUE

\* proyectos[student_a]["hash_proyecto"] != proyectos[student_b]["hash_proyecto"]
NotIdentical(record_a, record_b) == record_a.hash_proyecto # record_b.hash_proyecto

\* whether the pair (student_a, student_b) gets an entry in copias_parciales
IsPartialCopy(record_a, record_b) ==
    /\ EnoughCommon(CommonCount(record_a.archivos, record_b.archivos))
    /\ NotIdentical(record_a, record_b)

\* round(porcentaje, 1) of a pair, in tenths of a percent
porcentaje_similitud(files_a, files_b) ==
    LET total_files_min == TotalFilesMin(files_a, files_b)
    IN  IF total_files_min > 0
        THEN RoundedPercent(CommonCount(files_a, files_b), total_files_min)
        ELSE 0

\* the entry of one pair, for one iteration order of common_hashes
PartialCopy(student_a, student_b, files_a, files_b, order) ==
    [alumnos |-> <<student_a, student_b>>,
     archivos_copiados |->
        [k \in 1..Len(order) |->
            [nombre |-> FirstNameWith(files_a, order[k]), hash |-> Shortened(order[k])]],
     porcentaje_similitud |-> porcentaje_similitud(files_a, files_b),
     total_archivos_comunes |-> CommonCount(files_a, files_b)]

\* for i, student_a in enumerate(students_list): for student_b in students_list[i+1:]
Pairs(n) == {<<i, j>> \in (1..n) \X (1..n) : i < j}

\* the pairs of registry positions that get an entry, in the order of the two loops
ReportedPairs(proyectos) ==
    LET RECURSIVE Ordered(_)
        Ordered(ps) ==
            IF ps = {} THEN <<>>
            ELSE LET p == CHOOSE x \in ps :
                             \A y \in ps : x[1] < y[1] \/ (x[1] = y[1] /\ x[2] <= y[2])
                 IN  <<p>> \o Ordered(ps \ {p})
    IN  Ordered({p \in Pairs(Len(proyectos)) :
                    IsPartialCopy(proyectos[p[1]][2], proyectos[p[2]][2])})

\* the lists copias_parciales can be: one entry per reported pair, each with its
\* archivos_copiados in one of the iteration orders of the set common_hashes
copias_parciales(proyectos) ==
    LET pairs == ReportedPairs(proyectos)
        Entries(p) ==
            LET files_a == proyectos[p[1]][2].archivos
                files_b == proyectos[p[2]][2].archivos
            IN  {PartialCopy(proyectos[p[1]][1], proyectos[p[2]][1], files_a, files_b, o) :
                    o \in Orders(Range(DictValues(files_a)) \cap Range(DictValues(files_b)))}
        RECURSIVE Lists(_)
        Lists(k) ==
            IF k = 0 THEN {<<>>}
            ELSE {Append(l, e) : l \in Lists(k - 1), e \in Entries(pairs[k])}
    IN  Lists(Len(pairs))

\* the number of times x occurs in seq: seq.count(x)
Count(seq, x) == Cardinality({i \in 1..Len(seq) : seq[i] = x})

\* the values max(set(file_names), key=file_names.count) can return: a name
\* with the highest count; among several the one the set yields first
MostCommonNames(file_names) ==
    {n \in Range(file_names) : \A m \in Range(file_names) : Count(file_names, m) <= Count(file_names, n)}

\* list.sort(key=total_copias, reverse=True): stable, equal keys keep their order
RECURSIVE SortedByCopias(_)
SortedByCopias(entries) ==
    IF entries = <<>> THEN <<>>
    ELSE LET i == CHOOSE k \in 1..Len(entries) :
                     /\ \A m \in 1..Len(entries) : entries[m].total_copias <= entries[k].total_copias
                     /\ \A m \in 1..(k - 1) : entries[m].total_copias < entries[k].total_copias
         IN  <<entries[i]>> \o
             SortedByCopias(SubSeq(entries, 1, i - 1) \o SubSeq(entries, i + 1, Len(entries)))

\* mutant: every occurrence counts, also several of one student
IsMostCopiedByOccurrences(item) == Len(item[2]) >= MinCopias

\* len(set(student for student, _ in occurrences)) >= 3
IsMostCopied(item) == Cardinality({o[1] : o \in Range(item[2])}) >= MinCopias

\* the lists archivos_mas_copiados can be
archivos_mas_copiados(proyectos) ==
    LET items == SelectSeq(file_hash_map(proyectos), IsMostCopied)
        Entries(item) ==
            LET students_with_file == {o[1] : o \in Range(item[2])}
                file_names == [k \in 1..Len(item[2]) |-> item[2][k][2]]
            IN  {[archivo |-> n,
                  hash |-> Shortened(item[1]),
                  aparece_en |-> SortedStrs(students_with_file),
                  total_copias |-> Cardinality(students_with_file)] :
                    n \in MostCommonNames(file_names)}
        RECURSIVE Lists(_)
        Lists(k) ==
            IF k = 0 THEN {<<>>}
            ELSE {Append(l, e) : l \in Lists(k - 1), e \in Entries(items[k])}
    IN  {SortedByCopias(l) : l \in Lists(Len(items))}

\* mutant: the analysis leaves out the record entered last
detect_similarities_before_last(db) ==
    LET seen == SubSeq(db.proyectos, 1, Len(db.proyectos) - 1)
    IN  {[proyectos_identicos |-> proyectos_identicos(seen),
          copias_parciales |-> cp,
          archivos_mas_copiados |-> amc] :
            cp \in copias_parciales(seen),
            amc \in archivos_mas_copiados(seen)}

\* the dicts detect_similarities can return for the registry
detect_similarities(db) ==
    {[proyectos_identicos |-> proyectos_identicos(db.proyectos),
      copias_parciales |-> cp,
      archivos_mas_copiados |-> amc] :
        cp \in copias_parciales(db.proyectos),
        amc \in archivos_mas_copiados(db.proyectos)}

(***************************************************************************)
(* Spec: a registry filled by add_project calls and analysed by            *)
(* detect_similarities                                                     *)
(***************************************************************************)
Students == {<<"A", "b">>, <<"A", "d">>}
ProjectHashes == {sha256(<<"x">>), sha256(<<"y">>)}

\* the hash of the file made of n letters, and the n-th file name
Digest(n) == sha256([i \in 1..n |-> "a"])
Digests == {Digest(n) : n \in 1..8}
FirstDigests == {1, 2, 3}
PathOf(n) == [i \in 1..n |-> "A"]

\* a file_hashes dict: files 1..n carry the digests first..(first + n - 1); with
\* repeated, one more file carries the first digest again. Two such projects
\* share a run of digests: 2 or 3 of them, all of the smaller project, or
\* 4 or 5 out of 6
FileHashes(first, n, repeated) ==
    [k \in 1..(n + (IF repeated THEN 1 ELSE 0)) |->
        <<PathOf(k), IF k <= n THEN Digest(first + k - 1) ELSE Digest(first)>>]

FileHashDicts ==
    {FileHashes(first, n, repeated) :
        <<first, n, repeated>> \in
            {t \in FirstDigests \X (0..MaxFiles) \X BOOLEAN :
                /\ t[1] + t[2] - 1 <= Cardinality(Digests)
                /\ t[3] => (t[2] >= 1 /\ t[2] < MaxFiles)}}

Init ==
    /\ files_dict = <<>>
    /\ disk_file = NoneValue
    /\ hash_log = <<>>
    /\ entregas = <<>>
    /\ database = EmptyDatabase
    /\ similarities = NoneValue
    /\ now = 0
    /\ database_file = NoneValue
    /\ run = NoneValue
    /\ report_file = NoneValue

\* add_project with arguments drawn from the given sets
AddProjectFrom(students, project_hashes, dicts, line_counts) ==
    \E student_name \in students, project_hash \in project_hashes,
       file_hashes \in dicts, total_lines \in line_counts :
        /\ similarities = NoneValue
        /\ database' = add_project(database, student_name, project_hash, file_hashes,
                                   Len(file_hashes), total_lines)
        /\ UNCHANGED <<files_dict, disk_file, hash_log, entregas, similarities, now, database_file, run, report_file>>

AddProject == AddProjectFrom(Students, ProjectHashes, FileHashDicts, {0})

\* similarities = self.detect_similarities()
DetectSimilarities ==
    /\ similarities = NoneValue
    /\ \E result \in detect_similarities(database) : similarities' = <<result>>
    /\ UNCHANGED <<files_dict, disk_file, hash_log, entregas, database, now, database_file, run, report_file>>

\* print_similarity_summary(similarities): the returned dict is printed and dropped
PrintSimilaritySummary ==
    /\ similarities # NoneValue
    /\ similarities' = NoneValue
    /\ UNCHANGED <<files_dict, disk_file, hash_log, entregas, database, now, database_file, run, report_file>>

Next == AddProject \/ DetectSimilarities \/ PrintSimilaritySummary

Spec == Init /\ [][Next]_vars

\* what the registry holds for a student, read directly from the database
Registered == Range(DictKeys(database.proyectos))
RecordOf(student) == DictGet(database.proyectos, student)
UniqueHashes(student) == {f[2] : f \in Range(RecordOf(student).archivos)}
CommonHashes(a, b) == UniqueHashes(a) \cap UniqueHashes(b)
SmallerCount(a, b) ==
    IF Cardinality(UniqueHashes(a)) <= Cardinality(UniqueHashes(b))
    THEN Cardinality(UniqueHashes(a)) ELSE Cardinality(UniqueHashes(b))
RepeatsAHash(student) ==
    Cardinality(UniqueHashes(student)) < Len(RecordOf(student).archivos)

\* the entries of copias_parciales of the analysis just returned
PartialEntries ==
    UNION {Range(r.copias_parciales) : r \in Range(similarities)}
ReportedAsPartial(a, b) ==
    \E e \in PartialEntries : Range(e.alumnos) = {a, b}

\* C1: every entry of copias_parciales has 0 <= porcentaje_similitud <= 100.
C1_BoundedSimilarity ==
    \A e \in PartialEntries : e.porcentaje_similitud >= 0 /\ e.porcentaje_similitud <= 1000

\* a pair is reported in which one project repeats a hash, the projects have
\* different numbers of files and the hashes of one are a strict subset of the
\* other's
C1_Witness ==
    \E e \in PartialEntries :
        LET a == e.alumnos[1]
            b == e.alumnos[2]
        IN  /\ RepeatsAHash(a)
            /\ Len(RecordOf(a).archivos) # Len(RecordOf(b).archivos)
            /\ UniqueHashes(a) \subseteq UniqueHashes(b)
            /\ UniqueHashes(a) # UniqueHashes(b)

\* C4: a pair whose unique file-hash sets share fewer than 3 values never
\* appears in copias_parciales, and every pair with different project hashes
\* that shares 3 or more does.
C4_Threshold ==
    similarities # NoneValue =>
        \A a, b \in Registered :
            a # b =>
                /\ Cardinality(CommonHashes(a, b)) < 3 => ~ReportedAsPartial(a, b)
                /\ (/\ Cardinality(CommonHashes(a, b)) >= 3
                    /\ RecordOf(a).hash_proyecto # RecordOf(b).hash_proyecto)
                      => ReportedAsPartial(a, b)

\* the analysis has run on two projects with different project hashes that
\* share exactly 2 file hashes
C4_Witness ==
    /\ similarities # NoneValue
    /\ \E a, b \in Registered :
          /\ a # b
          /\ Cardinality(CommonHashes(a, b)) = 2
          /\ Cardinality(UniqueHashes(a)) >= 3
          /\ Cardinality(UniqueHashes(b)) >= 3
          /\ RecordOf(a).hash_proyecto # RecordOf(b).hash_proyecto

\* C5: for every reported pair, total_archivos_comunes is the number of
\* distinct hash values present in both projects, and porcentaje_similitud is
\* that number over the smaller number of distinct hashes, times 100, to the
\* nearest tenth.
C5_UniqueHashMetric ==
    \A e \in PartialEntries :
        LET c == Cardinality(CommonHashes(e.alumnos[1], e.alumnos[2]))
            m == SmallerCount(e.alumnos[1], e.alumnos[2])
            d == e.porcentaje_similitud * m - 1000 * c
        IN  /\ e.total_archivos_comunes = c
            /\ m > 0
            /\ 2 * (IF d < 0 THEN 0 - d ELSE d) <= m

\* a pair is reported in which a shared hash is carried by two paths of one
\* project, so that the matching path pairs outnumber the shared hashes and the
\* file counts differ from the numbers of distinct hashes
C5_Witness ==
    \E e \in PartialEntries :
        LET a == e.alumnos[1]
            b == e.alumnos[2]
        IN  /\ CommonCountCartesian(RecordOf(a).archivos, RecordOf(b).archivos)
                  > e.total_archivos_comunes
            /\ TotalFilesMinRaw(RecordOf(a).archivos, RecordOf(b).archivos) > SmallerCount(a, b)

\* C10: two students with equal hash_proyecto never appear in copias_parciales;
\* every entry names two distinct students and no pair is reported twice, in
\* either order.
C10_NoIdenticalNoDuplicatePairs ==
    \A r \in Range(similarities) :
        \A k \in 1..Len(r.copias_parciales) :
            LET e == r.copias_parciales[k]
            IN  /\ e.alumnos[1] # e.alumnos[2]
                /\ RecordOf(e.alumnos[1]).hash_proyecto # RecordOf(e.alumnos[2]).hash_proyecto
                /\ \A k2 \in 1..Len(r.copias_parciales) :
                      k2 # k => Range(r.copias_parciales[k2].alumnos) # Range(e.alumnos)

\* the analysis has run on two students with equal hash_proyecto whose
\* projects share 3 or more file hashes
C10_Witness ==
    /\ similarities # NoneValue
    /\ \E a, b \in Registered :
          /\ a # b
          /\ RecordOf(a).hash_proyecto = RecordOf(b).hash_proyecto
          /\ Cardinality(CommonHashes(a, b)) >= 3
          /\ UniqueHashes(a) # UniqueHashes(b)

(***************************************************************************)
(* SpecGroups: four students with small projects, for the grouping by      *)
(* project hash                                                            *)
(***************************************************************************)
GroupStudents == {<<"A", "b">>, <<"A", "d">>, <<"B", "a">>, <<"C", "a">>}
GroupDicts == {FileHashes(1, 1, FALSE), FileHashes(1, 2, FALSE)}

AddGroupProject == AddProjectFrom(GroupStudents, ProjectHashes, GroupDicts, {0})

NextGroups == AddGroupProject \/ DetectSimilarities \/ PrintSimilaritySummary

SpecGroups == Init /\ [][NextGroups]_vars

\* the students of the registry that hold a project hash
Holders(h) == {s \in Registered : RecordOf(s).hash_proyecto = h}

\* the entries of proyectos_identicos of the analysis just returned, by position
IdenticalEntries ==
    UNION {{<<k, r.proyectos_identicos[k]>> : k \in 1..Len(r.proyectos_identicos)} :
              r \in Range(similarities)}

\* C9: proyectos_identicos has exactly one entry for each hash_proyecto held by
\* 2 or more students and none for a hash held by one; its alumnos is the
\* sorted list of exactly the holders, so no student is in two groups.
C9_IdenticalGroups ==
    similarities # NoneValue =>
        /\ \A s \in Registered :
              LET h == RecordOf(s).hash_proyecto
                  entries == {e \in IdenticalEntries : e[2].hash_proyecto = h}
              IN  IF Cardinality(Holders(h)) >= 2
                  THEN /\ Cardinality(entries) = 1
                       /\ \A e \in entries :
                             /\ Range(e[2].alumnos) = Holders(h)
                             /\ Len(e[2].alumnos) = Cardinality(Holders(h))
                             /\ \A i \in 1..(Len(e[2].alumnos) - 1) :
                                   StrLess(e[2].alumnos[i], e[2].alumnos[i + 1])
                  ELSE entries = {}
        /\ \A e \in IdenticalEntries : Holders(e[2].hash_proyecto) # {}
        /\ \A e1, e2 \in IdenticalEntries :
              e1 # e2 => Range(e1[2].alumnos) \cap Range(e2[2].alumnos) = {}

\* the analysis has run on a registry with two groups of two students each,
\* the first group entered out of alphabetical order
C9_Witness ==
    /\ similarities # NoneValue
    /\ Len(database.proyectos) = 4
    /\ Cardinality(IdenticalEntries) = 2
    /\ StrLess(database.proyectos[2][1], database.proyectos[1][1])
    /\ RecordOf(database.proyectos[2][1]).hash_proyecto
          = RecordOf(database.proyectos[1][1]).hash_proyecto

(***************************************************************************)
(* SpecIngest: submissions on disk are hashed and entered in the registry  *)
(* as process_all_submissions does, then analysed                          *)
(***************************************************************************)
IngestPaths == {<<"a">>, <<"b">>}
RawContents == StrUpTo({"b", ":"}, MaxRaw)

\* an extracted submission: its .java files, relative path -> raw content
Submissions == UNION {[P -> RawContents] : P \in SUBSET IngestPaths}

\* scan_files: the files of the project, sorted (file names without directories)
scan_files(submission) == SortedStrs(DOMAIN submission)

\* archivos_dict of extract_java_files_with_hashes: path -> content, in the order of files
archivos_dict(submission) ==
    LET files == scan_files(submission)
    IN  [i \in 1..Len(files) |-> <<files[i], submission[files[i]]>>]

InitIngest ==
    /\ files_dict = <<>>
    /\ disk_file = NoneValue
    /\ hash_log = <<>>
    /\ entregas \in [Students -> Submissions]
    /\ database = EmptyDatabase
    /\ similarities = NoneValue
    /\ now = 0
    /\ database_file = NoneValue
    /\ run = NoneValue
    /\ report_file = NoneValue

\* one pass of the loop of process_all_submissions over a student directory:
\* without files the submission is skipped, otherwise its project hash and file
\* hashes go to add_project (stats['total_lines'] is still 0 at that point)
ProcessSubmission ==
    \E student_name \in DOMAIN entregas :
        /\ similarities = NoneValue
        /\ database' =
              IF archivos_dict(entregas[student_name]) = <<>> THEN database
              ELSE add_project(database, student_name,
                               calculate_project_hash(archivos_dict(entregas[student_name])),
                               hashes_dict(archivos_dict(entregas[student_name])),
                               Len(archivos_dict(entregas[student_name])), 0)
        /\ UNCHANGED <<files_dict, disk_file, hash_log, entregas, similarities, now, database_file, run, report_file>>

NextIngest == ProcessSubmission \/ DetectSimilarities \/ PrintSimilaritySummary

SpecIngest == InitIngest /\ [][NextIngest]_vars

\* the two students are reported together in a proyectos_identicos group
InSameGroup(a, b) ==
    \E e \in IdenticalEntries : {a, b} \subseteq Range(e[2].alumnos)

\* C2: if the (relative path -> raw content) mappings of two students differ
\* in any way, their project hashes differ and detect_similarities never puts
\* them in the same proyectos_identicos group.
C2_DifferentFilesDifferentHash ==
    \A a, b \in Registered :
        (a # b /\ entregas[a] # entregas[b]) =>
            /\ RecordOf(a).hash_proyecto # RecordOf(b).hash_proyecto
            /\ ~InSameGroup(a, b)

\* C3: two students entered with identical (relative path, raw content) sets
\* have equal hash_proyecto, and detect_similarities reports both together in
\* exactly one proyectos_identicos group and in no other.
C3_IdenticalFilesOneGroup ==
    \A a, b \in Registered :
        (a # b /\ entregas[a] = entregas[b]) =>
            /\ RecordOf(a).hash_proyecto = RecordOf(b).hash_proyecto
            /\ similarities # NoneValue =>
                  /\ Cardinality({e \in IdenticalEntries : a \in Range(e[2].alumnos)}) = 1
                  /\ Cardinality({e \in IdenticalEntries : b \in Range(e[2].alumnos)}) = 1
                  /\ InSameGroup(a, b)

\* the analysis has run on two students whose submissions hold the same two
\* files with the same non-empty contents
C3_Witness ==
    /\ similarities # NoneValue
    /\ \E a, b \in Registered :
          /\ a # b
          /\ entregas[a] = entregas[b]
          /\ DOMAIN entregas[a] = IngestPaths
          /\ \A p \in IngestPaths : entregas[a][p] # <<>>

(***************************************************************************)
(* SpecLarge: the pair comparison of detect_similarities on two projects   *)
(* of about two thousand distinct files each                               *)
(***************************************************************************)
\* the n-th of many distinct file hashes, and the k-th of many file names
LargeDigest(n) == sha256(<<n>>)
LargePath(k) == <<k>>

\* a file_hashes dict of n files carrying the digests first..(first + n - 1)
LargeFileHashes(first, n) ==
    [k \in 1..n |-> <<LargePath(k), LargeDigest(first + k - 1)>>]

LargeDicts ==
    {LargeFileHashes(first, n) : first \in FirstDigests, n \in (MaxUnique - 1)..MaxUnique}

\* what the body of the two loops computes for one pair: whether the pair gets
\* an entry, and the two numbers of the entry
PairCall(record_a, record_b) ==
    [record_a |-> record_a,
     record_b |-> record_b,
     reported |-> IsPartialCopy(record_a, record_b),
     porcentaje_similitud |-> porcentaje_similitud(record_a.archivos, record_b.archivos),
     total_archivos_comunes |-> CommonCount(record_a.archivos, record_b.archivos)]

\* a registry that holds two large projects
InitLarge ==
    /\ files_dict = <<>>
    /\ disk_file = NoneValue
    /\ hash_log = <<>>
    /\ entregas = <<>>
    /\ now = 0
    /\ database_file = NoneValue
    /\ run = NoneValue
    /\ report_file = NoneValue
    /\ \E hash_a, hash_b \in ProjectHashes, files_a, files_b \in LargeDicts :
          database =
              add_project(add_project(EmptyDatabase, <<"A", "b">>, hash_a, files_a,
                                      Len(files_a), 0),
                          <<"A", "d">>, hash_b, files_b, Len(files_b), 0)
    /\ similarities = NoneValue

\* one pass of the body of the two loops, on the two students of the registry
ComparePair ==
    /\ hash_log = <<>>
    /\ hash_log' = <<PairCall(database.proyectos[1][2], database.proyectos[2][2])>>
    /\ UNCHANGED <<files_dict, disk_file, entregas, database, similarities, now, database_file, run, report_file>>

NextLarge == ComparePair

SpecLarge == InitLarge /\ [][NextLarge]_vars

\* the distinct file hashes of a record
HashesOf(record) == Range(DictValues(record.archivos))

\* C11: an entry of copias_parciales has porcentaje_similitud 100.0 only when
\* every distinct file hash of the project with fewer distinct hashes is also
\* a file hash of the other project.
C11_FullOnlyWhenSubset ==
    \A i \in 1..Len(hash_log) :
        (hash_log[i].reported /\ hash_log[i].porcentaje_similitud = 1000) =>
            LET hashes_a == HashesOf(hash_log[i].record_a)
                hashes_b == HashesOf(hash_log[i].record_b)
            IN  IF Cardinality(hashes_a) <= Cardinality(hashes_b)
                THEN hashes_a \subseteq hashes_b
                ELSE hashes_b \subseteq hashes_a

(***************************************************************************)
(* SpecCopied: four students whose projects hold two file hashes under     *)
(* varying names, for the most copied files                                *)
(***************************************************************************)
\* {1: d1}, {1: d1, 2: d2}, {1: d2}, {1: d1, 2: d1}
CopiedDicts ==
    {FileHashes(1, 1, FALSE), FileHashes(1, 2, FALSE), FileHashes(2, 1, FALSE),
     FileHashes(1, 1, TRUE)}

AddCopiedProject == AddProjectFrom(GroupStudents, ProjectHashes, CopiedDicts, {0})

NextCopied == AddCopiedProject \/ DetectSimilarities \/ PrintSimilaritySummary

SpecCopied == Init /\ [][NextCopied]_vars

\* the file hashes of the registry, the students that hold one, and its
\* (student, file name) occurrences in the iteration order of the registry
RegistryHashes == UNION {UniqueHashes(s) : s \in Registered}
SubmittersOf(h) == {s \in Registered : h \in UniqueHashes(s)}
OccurrencesOf(h) ==
    LET OfProject(i) ==
            LET archivos == database.proyectos[i][2].archivos
            IN  [k \in 1..Len(SelectSeq(archivos, LAMBDA f : f[2] = h)) |->
                    <<database.proyectos[i][1], SelectSeq(archivos, LAMBDA f : f[2] = h)[k][1]>>]
        F[i \in 0..Len(database.proyectos)] ==
            IF i = 0 THEN <<>> ELSE F[i - 1] \o OfProject(i)
    IN  F[Len(database.proyectos)]

\* the archivos_mas_copiados list of the analysis just returned
MostCopiedLists == {r.archivos_mas_copiados : r \in Range(similarities)}

\* C12: archivos_mas_copiados has an entry for a file hash if and only if the
\* hash occurs in the projects of 3 or more distinct students; aparece_en is
\* the sorted list of those students, total_copias is its length, and the list
\* is in non-increasing order of total_copias.
C12_MostCopied ==
    \A amc \in MostCopiedLists :
        /\ \A h \in RegistryHashes :
              Cardinality({k \in 1..Len(amc) : amc[k].hash = Shortened(h)})
                  = IF Cardinality(SubmittersOf(h)) >= 3 THEN 1 ELSE 0
        /\ \A k \in 1..Len(amc) :
              \E h \in RegistryHashes :
                  /\ amc[k].hash = Shortened(h)
                  /\ Range(amc[k].aparece_en) = SubmittersOf(h)
                  /\ Len(amc[k].aparece_en) = Cardinality(SubmittersOf(h))
                  /\ \A i \in 1..(Len(amc[k].aparece_en) - 1) :
                        StrLess(amc[k].aparece_en[i], amc[k].aparece_en[i + 1])
                  /\ amc[k].total_copias = Len(amc[k].aparece_en)
        /\ \A k \in 1..(Len(amc) - 1) : amc[k].total_copias >= amc[k + 1].total_copias

\* the analysis has run on a registry in which one hash occurs 3 times in the
\* projects of 2 students, and another hash is held by 3 students that were
\* not registered in alphabetical order
C12_Witness ==
    /\ similarities # NoneValue
    /\ \E h \in RegistryHashes :
          Len(OccurrencesOf(h)) >= 3 /\ Cardinality(SubmittersOf(h)) = 2
    /\ \E h \in RegistryHashes :
          /\ Cardinality(SubmittersOf(h)) = 3
          /\ \E i, j \in 1..Len(database.proyectos) :
                /\ i < j
                /\ {database.proyectos[i][1], database.proyectos[j][1]} \subseteq SubmittersOf(h)
                /\ StrLess(database.proyectos[j][1], database.proyectos[i][1])

\* the file names of the occurrences of a hash, in the iteration order of the
\* registry, and the position at which a name is first seen
NamesOf(h) == [i \in 1..Len(OccurrencesOf(h)) |-> OccurrencesOf(h)[i][2]]
FirstSeen(names, n) == CHOOSE i \in 1..Len(names) : names[i] = n /\ \A k \in 1..(i - 1) : names[k] # n

\* C13: the archivo of every entry of archivos_mas_copiados is a name with the
\* maximum number of occurrences among the occurrences of the hash, and among
\* several names tied for the maximum it is the one seen first in the
\* iteration order of the registry.
C13_FirstSeenName ==
    \A amc \in MostCopiedLists :
        \A k \in 1..Len(amc) :
            \A h \in RegistryHashes :
                amc[k].hash = Shortened(h) =>
                    LET names == NamesOf(h)
                    IN  /\ amc[k].archivo \in Range(names)
                        /\ \A n \in Range(names) :
                              /\ Count(names, n) <= Count(names, amc[k].archivo)
                              /\ (n # amc[k].archivo
                                  /\ Count(names, n) = Count(names, amc[k].archivo))
                                    => FirstSeen(names, amc[k].archivo) < FirstSeen(names, n)

(***************************************************************************)
(* SpecExamples: two students whose file_hashes dicts repeat a hash and    *)
(* come in more than one insertion order, for the example file names       *)
(***************************************************************************)
\* the same items in the opposite insertion order
Reversed(d) == [i \in 1..Len(d) |-> d[Len(d) + 1 - i]]

\* {1: d1, 2: d2, 3: d3, 4: d1}, the same inserted from 4 down to 1, and three
\* dicts without a repeated hash
ExampleDicts ==
    {FileHashes(1, 3, TRUE), Reversed(FileHashes(1, 3, TRUE)),
     FileHashes(1, 3, FALSE), FileHashes(1, 4, FALSE), FileHashes(2, 3, FALSE)}

AddExampleProject == AddProjectFrom(Students, ProjectHashes, ExampleDicts, {0})

NextExamples == AddExampleProject \/ DetectSimilarities \/ PrintSimilaritySummary

SpecExamples == Init /\ [][NextExamples]_vars

\* the (hash, example name) pairs of an entry of copias_parciales
ExampleNames(entry) == {<<x.hash, x.nombre>> : x \in Range(entry.archivos_copiados)}

\* the paths of a student that carry a hash with the displayed prefix
PathsWith(student, shortened) ==
    {f[1] : f \in {g \in Range(RecordOf(student).archivos) : Shortened(g[2]) = shortened}}

\* C14: the example name reported for a shared hash is the first, in sorted
\* path order, of the paths of project A that carry it, whatever the insertion
\* order of A's archivos; and the analysis of a registry that holds the same
\* records in another insertion order reports the same example names.
C14_SortedExample ==
    \A e \in PartialEntries :
        /\ \A x \in Range(e.archivos_copiados) :
              /\ x.nombre \in PathsWith(e.alumnos[1], x.hash)
              /\ \A p \in PathsWith(e.alumnos[1], x.hash) : p = x.nombre \/ StrLess(x.nombre, p)
        /\ \A r \in detect_similarities([database EXCEPT !.proyectos = Reversed(@)]) :
              \A e2 \in Range(r.copias_parciales) :
                  Range(e2.alumnos) = Range(e.alumnos) => ExampleNames(e2) = ExampleNames(e)

(***************************************************************************)
(* SpecUpsert: add_project calls on a loaded registry while the clock      *)
(* advances                                                                *)
(***************************************************************************)
\* the (project_hash, file_hashes, total_lines) a student is registered with
UpsertProjects ==
    {[project_hash |-> sha256(<<"x">>), file_hashes |-> FileHashes(1, 1, FALSE), total_lines |-> 0],
     [project_hash |-> sha256(<<"x">>), file_hashes |-> FileHashes(1, 1, FALSE), total_lines |-> 1],
     [project_hash |-> sha256(<<"y">>), file_hashes |-> FileHashes(1, 2, FALSE), total_lines |-> 1]}

\* a registry saved by an earlier run, with the record of a third student
LoadedDatabase ==
    [version |-> "1.0",
     ultima_actualizacion |-> <<0>>,
     total_proyectos |-> 1,
     proyectos |-> <<<<<<"B", "a">>,
                      [fecha_procesado |-> 0,
                       hash_proyecto |-> sha256(<<"y">>),
                       archivos |-> FileHashes(1, 2, FALSE),
                       total_archivos |-> 2,
                       total_lineas |-> 0]>>>>]

InitUpsert ==
    /\ files_dict = <<>>
    /\ disk_file = NoneValue
    /\ hash_log = <<>>
    /\ entregas = <<>>
    /\ database \in {EmptyDatabase, LoadedDatabase}
    /\ similarities = NoneValue
    /\ now = 0
    /\ database_file = NoneValue
    /\ run = NoneValue
    /\ report_file = NoneValue

\* the log keeps the last two calls
LastTwo(log, call) == IF log = <<>> THEN <<call>> ELSE <<log[Len(log)], call>>

\* an add_project call: its arguments, when it was made, and what the registry
\* holds for the student and how many records it has once the call returned
UpsertCall(student_name, project_hash, file_hashes, total_files, total_lines, db) ==
    [student_name |-> student_name,
     project_hash |-> project_hash,
     file_hashes |-> file_hashes,
     total_files |-> total_files,
     total_lines |-> total_lines,
     at |-> now,
     record |-> DictGet(db.proyectos, student_name),
     count |-> Len(db.proyectos)]

AddProjectLogged ==
    \E student_name \in Students, p \in UpsertProjects :
        /\ database' = add_project(database, student_name, p.project_hash, p.file_hashes,
                                   Len(p.file_hashes), p.total_lines)
        /\ hash_log' = LastTwo(hash_log,
                               UpsertCall(student_name, p.project_hash, p.file_hashes,
                                          Len(p.file_hashes), p.total_lines, database'))
        /\ UNCHANGED <<files_dict, disk_file, entregas, similarities, now, database_file, run, report_file>>

\* datetime.now() moves on
Tick ==
    /\ now < MaxNow
    /\ now' = now + 1
    /\ UNCHANGED <<files_dict, disk_file, hash_log, entregas, database, similarities, database_file, run, report_file>>

NextUpsert == AddProjectLogged \/ Tick

SpecUpsert == InitUpsert /\ [][NextUpsert]_vars

\* the arguments of a logged call
ArgsOf(call) ==
    <<call.student_name, call.project_hash, call.file_hashes, call.total_files, call.total_lines>>

\* C15: after add_project is called twice for the same student with the same
\* project hash, file-hash mapping and counts, the student's record has the
\* same hash_proyecto, archivos, total_archivos and total_lineas as after the
\* first call, and the registry has as many records as after the first call.
C15_IdempotentUpsert ==
    (Len(hash_log) = 2 /\ ArgsOf(hash_log[1]) = ArgsOf(hash_log[2])) =>
        /\ hash_log[2].record.hash_proyecto = hash_log[1].record.hash_proyecto
        /\ hash_log[2].record.archivos = hash_log[1].record.archivos
        /\ hash_log[2].record.total_archivos = hash_log[1].record.total_archivos
        /\ hash_log[2].record.total_lineas = hash_log[1].record.total_lineas
        /\ hash_log[2].count = hash_log[1].count
        /\ hash_log[2].record = RecordOf(hash_log[2].student_name)
        /\ hash_log[2].count = Len(database.proyectos)

\* the same call has been made twice, the second time later than the first,
\* on a registry that holds another student's record too
C15_Witness ==
    /\ Len(hash_log) = 2
    /\ ArgsOf(hash_log[1]) = ArgsOf(hash_log[2])
    /\ hash_log[1].at < hash_log[2].at
    /\ hash_log[1].record.fecha_procesado # hash_log[2].record.fecha_procesado
    /\ hash_log[2].count = 2

\* C16: add_project inserts the record of an absent identity and replaces the
\* whole record of a present one, so that the registry holds at most one
\* record per identity; the records of all other identities, the version and
\* ultima_actualizacion are left as they were.
C16_UpsertFrame ==
    [][hash_log' # hash_log =>
          LET call == hash_log'[Len(hash_log')]
              proyectos == database'.proyectos
          IN  /\ \A i, j \in 1..Len(proyectos) : i # j => proyectos[i][1] # proyectos[j][1]
              /\ Range(DictKeys(proyectos)) = Registered \cup {call.student_name}
              /\ DictGet(proyectos, call.student_name)
                    = [fecha_procesado |-> call.at,
                       hash_proyecto |-> call.project_hash,
                       archivos |-> call.file_hashes,
                       total_archivos |-> call.total_files,
                       total_lineas |-> call.total_lines]
              /\ \A t \in Registered \ {call.student_name} : DictGet(proyectos, t) = RecordOf(t)
              /\ database'.version = database.version
              /\ database'.ultima_actualizacion = database.ultima_actualizacion]_vars

\* a student's record has been replaced, at a later time, by one with another
\* project hash and other files, in a loaded registry that has a timestamp and
\* the record of another student
C16_Witness ==
    /\ Len(hash_log) = 2
    /\ hash_log[1].student_name = hash_log[2].student_name
    /\ hash_log[1].project_hash # hash_log[2].project_hash
    /\ hash_log[1].file_hashes # hash_log[2].file_hashes
    /\ hash_log[1].at < hash_log[2].at
    /\ hash_log[2].count = hash_log[1].count
    /\ hash_log[2].count = 2
    /\ database.ultima_actualizacion # NoneValue
    /\ RecordOf(hash_log[2].student_name) = hash_log[2].record

(***************************************************************************)
(* hashes_database.json: json.dump and json.load of the registry           *)
(***************************************************************************)
\* JSON values
JsonNull == [json |-> "null"]
JsonString(s) == [json |-> "string", value |-> s]
JsonNumber(n) == [json |-> "number", value |-> n]
JsonObject(members) == [json |-> "object", members |-> members]

\* the pieces of text json.dump writes one after the other: an opening brace,
\* a key with a scalar or a project record, a key with an opening brace, a
\* closing brace; and the two brackets of an empty list
TokOpen == [t |-> "{"]
TokClose == [t |-> "}"]
TokMember(key, value) == [t |-> "member", key |-> key, value |-> value]
TokKeyOpen(key) == [t |-> "key{", key |-> key]
TokListOpen == [t |-> "["]
TokListClose == [t |-> "]"]

\* None -> null, str -> string
EncodeOptional(v) == IF v = NoneValue THEN JsonNull ELSE JsonString(v[1])

\* a project record as a JSON object
EncodeRecord(r) ==
    JsonObject(<<<<"fecha_procesado", JsonString(r.fecha_procesado)>>,
                 <<"hash_proyecto", JsonString(r.hash_proyecto)>>,
                 <<"archivos",
                   JsonObject([i \in 1..Len(r.archivos) |->
                                  <<r.archivos[i][1], JsonString(r.archivos[i][2])>>])>>,
                 <<"total_archivos", JsonNumber(r.total_archivos)>>,
                 <<"total_lineas", JsonNumber(r.total_lineas)>>>>)

\* json.dump(self.database, f, indent=2, ensure_ascii=False): the text written
json_dump(db) ==
    <<TokOpen,
      TokMember("version", JsonString(db.version)),
      TokMember("ultima_actualizacion", EncodeOptional(db.ultima_actualizacion)),
      TokMember("total_proyectos", JsonNumber(db.total_proyectos)),
      TokKeyOpen("proyectos")>>
    \o [i \in 1..Len(db.proyectos) |->
           TokMember(db.proyectos[i][1], EncodeRecord(db.proyectos[i][2]))]
    \o <<TokClose, TokClose>>

\* the texts "{}" and "[]"
EmptyObjectText == <<TokOpen, TokClose>>
EmptyListText == <<TokListOpen, TokListClose>>

\* null -> None, string -> str
DecodeOptional(jv) == IF jv.json = "null" THEN NoneValue ELSE <<jv.value>>

\* the value of a key of a JSON object
MemberOf(jv, key) == DictGet(jv.members, key)

\* a JSON object as a project record
DecodeRecord(jv) ==
    [fecha_procesado |-> MemberOf(jv, "fecha_procesado").value,
     hash_proyecto |-> MemberOf(jv, "hash_proyecto").value,
     archivos |-> [i \in 1..Len(MemberOf(jv, "archivos").members) |->
                      <<MemberOf(jv, "archivos").members[i][1],
                        MemberOf(jv, "archivos").members[i][2].value>>],
     total_archivos |-> MemberOf(jv, "total_archivos").value,
     total_lineas |-> MemberOf(jv, "total_lineas").value]

\* the dict made of the scalar members, and of the projects under "proyectos"
\* when that key is there
DecodeObject(scalars, has_proyectos, projects) ==
    LET keys == {scalars[i].key : i \in 1..Len(scalars)}
        ValueOf(k) == scalars[CHOOSE i \in 1..Len(scalars) : scalars[i].key = k].value
    IN  [k \in keys \cup (IF has_proyectos THEN {"proyectos"} ELSE {}) |->
            IF k = "proyectos" /\ has_proyectos
            THEN [i \in 1..Len(projects) |-> <<projects[i].key, DecodeRecord(projects[i].value)>>]
            ELSE IF k = "ultima_actualizacion" THEN DecodeOptional(ValueOf(k))
            ELSE ValueOf(k).value]

\* json.load(f): the value of a complete document, or a JSONDecodeError. The
\* documents are "[]", "{}" and what json_dump writes; a text that stops
\* before its last closing brace is not a document.
json_load(text) ==
    IF text = EmptyListText THEN [ok |-> TRUE, value |-> <<>>]
    ELSE IF Len(text) < 2 \/ text[1].t # "{" \/ text[Len(text)].t # "}" THEN [ok |-> FALSE]
    ELSE LET body == SubSeq(text, 2, Len(text) - 1)
             opens == {i \in 1..Len(body) : body[i].t = "key{"}
         IN  IF opens = {}
             THEN IF \A i \in 1..Len(body) : body[i].t = "member"
                  THEN [ok |-> TRUE, value |-> DecodeObject(body, FALSE, <<>>)]
                  ELSE [ok |-> FALSE]
             ELSE LET o == CHOOSE i \in opens : \A k \in opens : i <= k
                  IN  IF /\ body[Len(body)].t = "}"
                         /\ \A i \in 1..(Len(body) - 1) : i # o => body[i].t = "member"
                      THEN [ok |-> TRUE,
                            value |-> DecodeObject(SubSeq(body, 1, o - 1), TRUE,
                                                   SubSeq(body, o + 1, Len(body) - 1))]
                      ELSE [ok |-> FALSE]

(***************************************************************************)
(* SpecRuns: batch runs of process_all_submissions, one after the other,   *)
(* over the persisted hashes_database.json                                 *)
(***************************************************************************)
\* hashes_database.json: missing, there but not readable as text, or a text
AbsentFile == [exists |-> FALSE, readable |-> FALSE, text |-> <<>>]
UnreadableFile == [exists |-> TRUE, readable |-> FALSE, text |-> <<>>]
TextFile(text) == [exists |-> TRUE, readable |-> TRUE, text |-> text]

\* whether a loaded value is a dict with the key
HasKey(db, key) == key \in DOMAIN db

\* mutant: the persisted registry is ignored
load_database_fresh(file) == EmptyDatabase

\* load_database: the persisted value if the file exists and json.load
\* succeeds, a new empty registry otherwise
load_database(file) ==
    IF file.exists /\ file.readable /\ json_load(file.text).ok
    THEN json_load(file.text).value
    ELSE EmptyDatabase

\* mutant: the timestamp is set, the count is left as loaded
StampedKeepingCount(db) == [db EXCEPT !.ultima_actualizacion = <<now>>]

\* the first two lines of save_database
Stamped(db) ==
    [db EXCEPT !.ultima_actualizacion = <<now>>, !.total_proyectos = Len(db.proyectos)]

\* open(self.database_path, 'w') followed by json.dump: the file is cut to
\* nothing when it is opened and the text is written piece by piece. The
\* outcomes are the whole text, or an exception with the file as it was (the
\* open failed) or holding a beginning of the text (a write failed or the
\* process was stopped).
SaveOutcomes(file, db) ==
    {[raised |-> FALSE, file |-> TextFile(json_dump(db))], [raised |-> TRUE, file |-> file]}
    \cup {[raised |-> TRUE, file |-> TextFile(SubSeq(json_dump(db), 1, k))] :
            k \in 0..(Len(json_dump(db)) - 1)}

\* the registry a previous run has persisted
PersistedDatabase ==
    [version |-> "1.0",
     ultima_actualizacion |-> <<0>>,
     total_proyectos |-> 1,
     proyectos |-> <<<<<<"A", "b">>,
                      [fecha_procesado |-> 0,
                       hash_proyecto |-> sha256(<<"y">>),
                       archivos |-> FileHashes(1, 2, FALSE),
                       total_archivos |-> 2,
                       total_lineas |-> 0]>>>>]

\* the states in which a run can find the file: missing, unreadable, empty,
\* cut short, "{}", "[]", a registry, a registry with a wrong total_proyectos
InitialFiles ==
    {AbsentFile, UnreadableFile, TextFile(<<>>),
     TextFile(SubSeq(json_dump(PersistedDatabase), 1, 5)),
     TextFile(EmptyObjectText), TextFile(EmptyListText),
     TextFile(json_dump(PersistedDatabase)),
     TextFile(json_dump([PersistedDatabase EXCEPT !.total_proyectos = 7]))}

\* a student directory of entregas/: whether it holds a zip that can be
\* extracted, the .java files in it, and whether
\* consolidado/<student>/entrega.txt can be written
StudentDir(zip, files, writable) == [zip |-> zip, files |-> files, writable |-> writable]

OneFile == [p \in {<<"a">>} |-> <<"b">>]
TwoFiles == [p \in IngestPaths |-> <<"b">>]

StudentDirs ==
    {StudentDir(FALSE, OneFile, TRUE), StudentDir(TRUE, OneFile, TRUE),
     StudentDir(TRUE, TwoFiles, TRUE), StudentDir(TRUE, OneFile, FALSE)}

\* the position of a run: its phase, the student directories still to visit,
\* the two counters, and for the record the value load_database returned and
\* the students add_project was called for
RunState(phase, pending, successful, failed, loaded, added) ==
    [phase |-> phase, pending |-> pending, successful |-> successful, failed |-> failed,
     loaded |-> loaded, added |-> added]

InitRuns ==
    /\ files_dict = <<>>
    /\ disk_file = NoneValue
    /\ hash_log = <<>>
    /\ entregas = <<>>
    /\ database = EmptyDatabase
    /\ similarities = NoneValue
    /\ now = 0
    /\ database_file \in InitialFiles
    /\ run = RunState("idle", {}, 0, 0, EmptyDatabase, {})
    /\ report_file = NoneValue

\* process_all_submissions up to the loop: the detector loads the registry,
\* the number of loaded projects is printed (a loaded value without
\* 'total_proyectos' raises there and main exits), the student directories
\* are listed
StartRun ==
    /\ run.phase \in {"idle", "done", "save_failed", "load_failed"}
    /\ \E dirs \in SUBSET Students :
          /\ entregas' \in [dirs -> StudentDirs]
          /\ database' = load_database(database_file)
          /\ run' = RunState(IF ~HasKey(database', "total_proyectos") THEN "load_failed"
                             ELSE IF dirs = {} THEN "done" ELSE "running",
                             IF HasKey(database', "total_proyectos") THEN dirs ELSE {},
                             0, 0, database', {})
    /\ similarities' = NoneValue
    /\ UNCHANGED <<files_dict, disk_file, hash_log, now, database_file, report_file>>

\* one pass of the loop: a directory without a zip, a zip that cannot be
\* extracted and a project without .java files count as failed and leave the
\* registry as it is; otherwise the
\* project is hashed and entered in the registry, and then entrega.txt is
\* written, which counts as failed when it raises and as successful otherwise
ProcessStudent ==
    /\ run.phase = "running"
    /\ \E student_name \in run.pending :
          LET dir == entregas[student_name]
              archivos == archivos_dict(dir.files)
              analysed == dir.zip /\ archivos # <<>>
          IN  /\ database' =
                    IF analysed
                    THEN add_project(database, student_name, calculate_project_hash(archivos),
                                     hashes_dict(archivos), Len(archivos), 0)
                    ELSE database
              /\ run' = [run EXCEPT
                            !.pending = @ \ {student_name},
                            !.successful = IF analysed /\ dir.writable THEN @ + 1 ELSE @,
                            !.failed = IF analysed /\ dir.writable THEN @ ELSE @ + 1,
                            !.added = IF analysed THEN @ \cup {student_name} ELSE @]
    /\ UNCHANGED <<files_dict, disk_file, hash_log, entregas, similarities, now, database_file, report_file>>

\* the end of process_all_submissions: with a successful submission the
\* registry is saved and analysed; an exception of save_database ends the run
FinishRun ==
    /\ run.phase = "running"
    /\ run.pending = {}
    /\ IF run.successful > 0
       THEN \E outcome \in SaveOutcomes(database_file, Stamped(database)) :
               /\ database' = Stamped(database)
               /\ database_file' = outcome.file
               /\ IF outcome.raised
                  THEN /\ run' = [run EXCEPT !.phase = "save_failed"]
                       /\ similarities' = similarities
                  ELSE /\ run' = [run EXCEPT !.phase = "done"]
                       /\ \E result \in detect_similarities(database') :
                             similarities' = <<result>>
       ELSE /\ run' = [run EXCEPT !.phase = "done"]
            /\ UNCHANGED <<database, database_file, similarities>>
    /\ UNCHANGED <<files_dict, disk_file, hash_log, entregas, now, report_file>>

NextRuns == StartRun \/ ProcessStudent \/ FinishRun \/ Tick

SpecRuns == InitRuns /\ [][NextRuns]_vars

\* the keys of a registry
RegistryKeys == {"version", "ultima_actualizacion", "total_proyectos", "proyectos"}

\* whether the file holds a complete registry document, and the registry it holds
HoldsRegistry(file) ==
    /\ file.exists
    /\ file.readable
    /\ json_load(file.text).ok
    /\ DOMAIN json_load(file.text).value = RegistryKeys
RegistryIn(file) == json_load(file.text).value

\* C17: a run that loaded the persisted registry and went through to its end
\* leaves in the persisted registry every record that was there, unchanged
\* unless the run called add_project for that student; it adds records only
\* for the students it processed and removes none.
C17_RecordsPersist ==
    [][(run.phase = "running" /\ run'.phase = "done" /\ HoldsRegistry(database_file)) =>
          /\ HoldsRegistry(database_file')
          /\ \A i \in 1..Len(RegistryIn(database_file).proyectos) :
                LET student == RegistryIn(database_file).proyectos[i][1]
                IN  /\ DictHas(RegistryIn(database_file').proyectos, student)
                    /\ student \notin run'.added =>
                          DictGet(RegistryIn(database_file').proyectos, student)
                              = RegistryIn(database_file).proyectos[i][2]
          /\ \A i \in 1..Len(RegistryIn(database_file').proyectos) :
                LET student == RegistryIn(database_file').proyectos[i][1]
                IN  DictHas(RegistryIn(database_file).proyectos, student) \/ student \in run'.added
      ]_vars

\* a run has loaded a registry that an earlier run had saved with the record
\* of one student, has processed only the other student and has saved: the
\* file holds both records, the first as it was loaded
C17_Witness ==
    /\ run.phase = "done"
    /\ run.successful > 0
    /\ run.added = {<<"A", "d">>}
    /\ DOMAIN run.loaded = RegistryKeys
    /\ DictHas(run.loaded.proyectos, <<"A", "b">>)
    /\ DictGet(run.loaded.proyectos, <<"A", "b">>) # PersistedDatabase.proyectos[1][2]
    /\ HoldsRegistry(database_file)
    /\ DictHas(RegistryIn(database_file).proyectos, <<"A", "d">>)
    /\ DictHas(RegistryIn(database_file).proyectos, <<"A", "b">>)
    /\ DictGet(RegistryIn(database_file).proyectos, <<"A", "b">>)
          = DictGet(run.loaded.proyectos, <<"A", "b">>)

\* C18: whatever the state of the persisted file, load_database yields the
\* persisted registry or a fresh empty registry, and process_all_submissions
\* goes on to process the submissions.
C18_LoadRecovers ==
    /\ run.phase # "load_failed"
    /\ run.phase = "running" =>
          \/ run.loaded = EmptyDatabase
          \/ HoldsRegistry(database_file) /\ run.loaded = RegistryIn(database_file)

\* C19: when save_database fails or is interrupted, the file holds the
\* complete registry persisted before or the complete new registry, and the
\* failure ends the run.
C19_AtomicSave ==
    [][run'.phase = "save_failed" =>
          \/ database_file' = database_file
          \/ database_file' = TextFile(json_dump(database'))]_vars

\* C20: after a successful save_database the persisted registry has
\* total_proyectos equal to the number of entries of proyectos and a non-null
\* ultima_actualizacion.
C20_SavedCounts ==
    (run.phase = "done" /\ run.successful > 0) =>
        /\ HoldsRegistry(database_file)
        /\ RegistryIn(database_file).total_proyectos = Len(RegistryIn(database_file).proyectos)
        /\ RegistryIn(database_file).ultima_actualizacion # NoneValue

\* a run has loaded a registry with a wrong total_proyectos, has replaced the
\* record of one student and inserted the record of another, and has saved
C20_Witness ==
    /\ run.phase = "done"
    /\ run.successful > 0
    /\ DOMAIN run.loaded = RegistryKeys
    /\ run.loaded.total_proyectos = 7
    /\ run.added = Students
    /\ HoldsRegistry(database_file)
    /\ Len(RegistryIn(database_file).proyectos) = 2

(***************************************************************************)
(* SpecBatch: one run of main and process_all_submissions, with the        *)
(* outcome of every student directory, the calls made on the               *)
(* SimilarityDetector and the two files written at the end                 *)
(***************************************************************************)
\* self.stats as BatchProjectConsolidator.__init__ leaves it
InitialStats == [total_files |-> 0, total_lines |-> 0, java_files |-> 0, config_files |-> 0]

\* lines = content.count('\n') + 1
LineCount(content) == Count(content, "LF") + 1

\* total_lines of generate_consolidated_file: the sum over the files
RECURSIVE TotalLines(_)
TotalLines(contents) ==
    IF contents = <<>> THEN 0 ELSE LineCount(Head(contents)) + TotalLines(Tail(contents))

\* a student directory of entregas/: its zip ("none", "corrupt" or "ok"), the
\* .java files of the zip (path -> content), the contents of the other files
\* of the zip that scan_files selects, whether consolidado/<student>/entrega.txt
\* can be written, and whether the temporary directory can be removed
Entrega(zip, java, others, writable, cleanup) ==
    [zip |-> zip, java |-> java, others |-> others, writable |-> writable, cleanup |-> cleanup]

NoJava == [p \in {} |-> <<>>]
TwoJava == [p \in IngestPaths |-> IF p = <<"a">> THEN <<"b">> ELSE <<"b", "LF", "b">>]

BatchEntregas ==
    {Entrega("none", NoJava, <<>>, TRUE, TRUE),
     Entrega("corrupt", NoJava, <<>>, TRUE, TRUE),
     Entrega("ok", NoJava, <<>>, TRUE, TRUE),
     Entrega("ok", NoJava, <<<<"b">>>>, TRUE, TRUE),
     Entrega("ok", OneFile, <<>>, TRUE, TRUE),
     Entrega("ok", TwoJava, <<<<"b">>>>, TRUE, TRUE),
     Entrega("ok", OneFile, <<>>, FALSE, TRUE),
     Entrega("ok", OneFile, <<>>, TRUE, FALSE)}

\* self.stats once generate_consolidated_file has returned
stats(dir) ==
    LET archivos == archivos_dict(dir.java)
    IN  [total_files |-> Len(archivos) + Len(dir.others),
         total_lines |-> TotalLines([i \in 1..Len(archivos) |-> archivos[i][2]] \o dir.others),
         java_files |-> Len(archivos),
         config_files |-> Len(dir.others)]

\* an entry of the results list: (student_name, status, stats or None)
ResultEntry(student_name, status, st) == <<student_name, status, st>>

\* the calls made on the SimilarityDetector, as they are logged
LoadCall == [call |-> "load_database"]
AddCall(student_name) == [call |-> "add_project", student_name |-> student_name]
SaveCall(raised) == [call |-> "save_database", raised |-> raised]
ReportCall(raised) == [call |-> "generate_similarity_report", raised |-> raised]

\* mutant: the registry is loaded again in every pass of the loop
PassReloading(db, entries, calls) ==
    [database |-> db, entries |-> entries, calls |-> <<LoadCall>> \o calls]

\* what one pass of the loop does: the registry after it, the entries it
\* appends to results and the detector calls it makes
Pass(db, entries, calls) == [database |-> db, entries |-> entries, calls |-> calls]

\* the body of the loop of process_all_submissions for one student directory.
\* Leaving the "with tempfile.TemporaryDirectory()" block removes the
\* directory; an exception there reaches the except clause of the loop body
\* like any other, after the entry of the pass has been appended.
process_submission(db, student_name, dir) ==
    LET archivos == archivos_dict(dir.java)
        stored == add_project(db, student_name, calculate_project_hash(archivos),
                              hashes_dict(archivos), Len(archivos), InitialStats.total_lines)
        error == <<ResultEntry(student_name, "Error", NoneValue)>>
        on_exit == IF dir.cleanup THEN <<>> ELSE error
    IN  CASE dir.zip = "none" ->
                Pass(db, <<ResultEntry(student_name, "No se encontro ZIP", NoneValue)>>, <<>>)
          [] dir.zip = "corrupt" ->
                Pass(db, error, <<>>)
          [] dir.zip = "ok" /\ Len(archivos) + Len(dir.others) = 0 ->
                Pass(db, <<ResultEntry(student_name, "Sin archivos validos", NoneValue)>>
                             \o on_exit, <<>>)
          [] dir.zip = "ok" /\ Len(dir.others) > 0 /\ archivos = <<>> ->
                Pass(db, <<ResultEntry(student_name, "Sin archivos .java", NoneValue)>>
                             \o on_exit, <<>>)
          [] dir.zip = "ok" /\ archivos # <<>> /\ ~dir.writable ->
                Pass(stored, error, <<AddCall(student_name)>>)
          [] OTHER ->
                Pass(stored, <<ResultEntry(student_name, "Exitoso", <<stats(dir)>>)>> \o on_exit,
                     <<AddCall(student_name)>>)

\* how many entries of a pass count as successful and as failed
Successes(entries) == Cardinality({i \in 1..Len(entries) : entries[i][2] = "Exitoso"})
Failures(entries) == Len(entries) - Successes(entries)

\* reporte_similitud.json: missing, or there with a whole report or cut short
NoReportFile == [exists |-> FALSE, complete |-> FALSE, report |-> NoneValue]
PartialReportFile == [exists |-> TRUE, complete |-> FALSE, report |-> NoneValue]
ReportFile(report) == [exists |-> TRUE, complete |-> TRUE, report |-> <<report>>]

\* mutant: the result lists are kept in the registry
generate_similarity_report_storing(db) ==
    {[similarities |-> result,
      report |-> [generado |-> now,
                  total_proyectos_analizados |-> db.total_proyectos,
                  total_grupos_identicos |-> Len(result.proyectos_identicos),
                  total_copias_parciales |-> Len(result.copias_parciales),
                  proyectos_identicos |-> result.proyectos_identicos,
                  copias_parciales |-> result.copias_parciales,
                  archivos_mas_copiados |-> result.archivos_mas_copiados],
      database |-> [k \in DOMAIN db \cup {"proyectos_identicos"} |->
                       IF k = "proyectos_identicos" THEN result.proyectos_identicos
                       ELSE db[k]]] : result \in detect_similarities(db)}

\* mutant: the two counts of the report are taken from each other's list
generate_similarity_report_swapped(db) ==
    {[similarities |-> result,
      report |-> [generado |-> now,
                  total_proyectos_analizados |-> db.total_proyectos,
                  total_grupos_identicos |-> Len(result.copias_parciales),
                  total_copias_parciales |-> Len(result.proyectos_identicos),
                  proyectos_identicos |-> result.proyectos_identicos,
                  copias_parciales |-> result.copias_parciales,
                  archivos_mas_copiados |-> result.archivos_mas_copiados],
      database |-> db] : result \in detect_similarities(db)}

\* generate_similarity_report up to the write: the report, the dict it
\* returns, and self.database as the call leaves it
generate_similarity_report(db) ==
    {[similarities |-> result,
      report |-> [generado |-> now,
                  total_proyectos_analizados |-> db.total_proyectos,
                  total_grupos_identicos |-> Len(result.proyectos_identicos),
                  total_copias_parciales |-> Len(result.copias_parciales),
                  proyectos_identicos |-> result.proyectos_identicos,
                  copias_parciales |-> result.copias_parciales,
                  archivos_mas_copiados |-> result.archivos_mas_copiados],
      database |-> db] : result \in detect_similarities(db)}

\* open(self.report_path, 'w') followed by json.dump: the whole report, or an
\* exception with the file as it was or cut short
ReportOutcomes(file, report) ==
    {[raised |-> FALSE, file |-> ReportFile(report)],
     [raised |-> TRUE, file |-> file],
     [raised |-> TRUE, file |-> PartialReportFile]}

\* mutant: main ends with status 0 whatever happened
ExitStatusZero(raised) == 0

\* mutant: the end of the run goes on without looking at the counter
NonNegative(successful) == successful >= 0

\* if successful > 0:
AnySuccessful(successful) == successful > 0

\* main: an exception of process_all_submissions is printed and the process
\* exits with status 1; otherwise main returns and the status is 0
ExitStatus(raised) == IF raised THEN 1 ELSE 0

\* the position of main: its phase ("idle", "running", "exited"), the student
\* directories still to visit, the counters and the results list of
\* process_all_submissions, the value load_database returned, and the exit
\* status once the process has ended
BatchState(phase, pending, successful, failed, results, loaded, exit) ==
    [phase |-> phase, pending |-> pending, successful |-> successful, failed |-> failed,
     results |-> results, loaded |-> loaded, exit |-> exit]

Exited(state, raised) == [state EXCEPT !.phase = "exited", !.exit = <<ExitStatus(raised)>>]

\* the files an earlier run has left: no registry or one with a wrong
\* total_proyectos; no report, a whole one or one cut short
BatchFiles ==
    {AbsentFile, TextFile(json_dump([PersistedDatabase EXCEPT !.total_proyectos = 7]))}

EarlierReport ==
    [generado |-> 0,
     total_proyectos_analizados |-> 1,
     total_grupos_identicos |-> 0,
     total_copias_parciales |-> 0,
     proyectos_identicos |-> <<>>,
     copias_parciales |-> <<>>,
     archivos_mas_copiados |-> <<>>]

BatchReportFiles == {NoReportFile, PartialReportFile, ReportFile(EarlierReport)}

InitBatch ==
    /\ files_dict = <<>>
    /\ disk_file = NoneValue
    /\ hash_log = <<>>
    /\ entregas = <<>>
    /\ database = EmptyDatabase
    /\ similarities = NoneValue
    /\ now = 0
    /\ database_file \in BatchFiles
    /\ run = BatchState("idle", {}, 0, 0, <<>>, NoneValue, NoneValue)
    /\ report_file \in BatchReportFiles

\* main and process_all_submissions up to the loop: without the entregas
\* folder the function returns at once; otherwise the detector is created,
\* which loads the registry, and the student directories are listed; without
\* any the function returns
StartBatch ==
    /\ run.phase = "idle"
    /\ \E dirs \in SUBSET Students, entregas_exists \in BOOLEAN :
          /\ ~entregas_exists => dirs = {}
          /\ entregas' \in [dirs -> BatchEntregas]
          /\ IF ~entregas_exists
             THEN /\ UNCHANGED database
                  /\ hash_log' = <<>>
                  /\ run' = Exited(BatchState("running", {}, 0, 0, <<>>, NoneValue, NoneValue),
                                   FALSE)
             ELSE /\ database' = load_database(database_file)
                  /\ hash_log' = <<LoadCall>>
                  /\ run' = IF ~HasKey(database', "total_proyectos")
                            THEN Exited(BatchState("running", {}, 0, 0, <<>>, <<database'>>,
                                                   NoneValue), TRUE)
                            ELSE IF dirs = {}
                            THEN Exited(BatchState("running", {}, 0, 0, <<>>, <<database'>>,
                                                   NoneValue), FALSE)
                            ELSE BatchState("running", dirs, 0, 0, <<>>, <<database'>>, NoneValue)
    /\ similarities' = NoneValue
    /\ UNCHANGED <<files_dict, disk_file, now, database_file, report_file>>

\* one pass of the loop
VisitStudent ==
    /\ run.phase = "running"
    /\ \E student_name \in run.pending :
          LET pass == process_submission(database, student_name, entregas[student_name])
          IN  /\ database' = pass.database
              /\ hash_log' = hash_log \o pass.calls
              /\ run' = [run EXCEPT !.pending = @ \ {student_name},
                                    !.successful = @ + Successes(pass.entries),
                                    !.failed = @ + Failures(pass.entries),
                                    !.results = @ \o pass.entries]
    /\ UNCHANGED <<files_dict, disk_file, entregas, similarities, now, database_file, report_file>>

\* the end of process_all_submissions and of main: with a successful
\* submission save_database and then generate_similarity_report are called;
\* an exception of either leaves process_all_submissions and main exits
EndBatch ==
    /\ run.phase = "running"
    /\ run.pending = {}
    /\ IF AnySuccessful(run.successful)
       THEN \E save \in SaveOutcomes(database_file, Stamped(database)) :
               /\ database_file' = save.file
               /\ IF save.raised
                  THEN /\ database' = Stamped(database)
                       /\ hash_log' = Append(hash_log, SaveCall(TRUE))
                       /\ run' = Exited(run, TRUE)
                       /\ UNCHANGED <<similarities, report_file>>
                  ELSE \E made \in generate_similarity_report(Stamped(database)) :
                          \E written \in ReportOutcomes(report_file, made.report) :
                             /\ database' = made.database
                             /\ report_file' = written.file
                             /\ hash_log' = hash_log \o <<SaveCall(FALSE),
                                                          ReportCall(written.raised)>>
                             /\ run' = Exited(run, written.raised)
                             /\ similarities' = IF written.raised THEN similarities
                                                ELSE <<made.similarities>>
       ELSE /\ run' = Exited(run, FALSE)
            /\ UNCHANGED <<hash_log, database, database_file, similarities, report_file>>
    /\ UNCHANGED <<files_dict, disk_file, entregas, now>>

NextBatch == StartBatch \/ VisitStudent \/ EndBatch

SpecBatch == InitBatch /\ [][NextBatch]_vars

\* the calls of the log with the given name, by position
CallsOf(name) == {i \in 1..Len(hash_log) : hash_log[i].call = name}

\* the run has loaded a registry with the expected keys
LoadedRegistry == run.loaded # NoneValue /\ DOMAIN run.loaded[1] = RegistryKeys

\* C21: within one run the registry is loaded exactly once before the first
\* add_project, save_database is called at most once and only after the last
\* student directory has been processed, and the database file is not
\* written while student directories are still being processed.
C21_RegistryLifecycle ==
    [][/\ Cardinality(CallsOf("load_database")') <= 1
       /\ CallsOf("add_project")' # {} =>
             /\ CallsOf("load_database")' = {1}
       /\ Cardinality(CallsOf("save_database")') <= 1
       /\ \A i \in CallsOf("save_database")' :
             /\ run'.pending = {}
             /\ \A j \in CallsOf("add_project")' : j < i
             /\ Cardinality(DOMAIN entregas') = Cardinality({r[1] : r \in Range(run'.results)})
       /\ database_file' # database_file =>
             /\ run.phase = "running"
             /\ run.pending = {}
             /\ run'.phase = "exited"
             /\ CallsOf("save_database") = {}
       /\ (run.phase = "running" /\ run'.phase = "running") =>
             CallsOf("save_database")' = {}]_vars

\* a run has loaded a registry, entered two students and saved it
C21_Witness ==
    /\ run.phase = "exited"
    /\ LoadedRegistry
    /\ run.loaded[1].proyectos # <<>>
    /\ Len(hash_log) = 5
    /\ Cardinality(CallsOf("add_project")) = 2
    /\ CallsOf("save_database") = {4}
    /\ database_file # TextFile(json_dump(run.loaded[1]))

\* C22: a failure in one student directory never ends the batch: every
\* directory is visited, each visited directory has exactly one entry in
\* results, and at the end successful + failed is the number of directories.
C22_OneEntryPerDirectory ==
    LoadedRegistry =>
        /\ run.phase = "exited" => run.pending = {}
        /\ \A s \in DOMAIN entregas \ run.pending :
              Cardinality({i \in 1..Len(run.results) : run.results[i][1] = s}) = 1
        /\ run.successful + run.failed + Cardinality(run.pending) = Cardinality(DOMAIN entregas)

\* C23: when save_database or generate_similarity_report raises at the end of
\* a run, process_all_submissions is left by the exception (the summary of
\* the analysis is not reached) and main exits with a status other than 0.
C23_PersistFailureExits ==
    (\E i \in 1..Len(hash_log) :
        hash_log[i].call \in {"save_database", "generate_similarity_report"}
            /\ hash_log[i].raised) =>
        /\ run.phase = "exited"
        /\ run.exit # NoneValue
        /\ run.exit[1] # 0
        /\ similarities = NoneValue

\* the registry was saved and the report could not be written
C23_Witness ==
    /\ run.phase = "exited"
    /\ Len(hash_log) >= 2
    /\ hash_log[Len(hash_log)] = ReportCall(TRUE)
    /\ hash_log[Len(hash_log) - 1] = SaveCall(FALSE)
    /\ report_file = PartialReportFile
    /\ run.exit = <<1>>

\* C24: the record stored for a successfully processed student has
\* total_archivos equal to the number of entries of its archivos and
\* total_lineas equal to the total_lines of the stats reported for the student.
C24_StoredCounts ==
    \A i \in 1..Len(run.results) :
        run.results[i][2] = "Exitoso" =>
            /\ DictHas(database.proyectos, run.results[i][1])
            /\ LET record == DictGet(database.proyectos, run.results[i][1])
               IN  /\ record.total_archivos = Len(record.archivos)
                   /\ record.total_lineas = run.results[i][3][1].total_lines

\* C25: in every proyectos_identicos group all members have the same
\* total_archivos and the same total_lineas, which are the archivos_identicos
\* and total_lineas reported for the group. Checked under SpecIngest, where
\* the records come from submissions on disk.
C25_GroupCounts ==
    \A e \in IdenticalEntries :
        \A s \in Range(e[2].alumnos) :
            /\ RecordOf(s).total_archivos = e[2].archivos_identicos
            /\ RecordOf(s).total_lineas = e[2].total_lineas

\* the report call of the run, when it has been made
ReportCalls == CallsOf("generate_similarity_report")

\* C26: generate_similarity_report, and the detect_similarities it calls,
\* leave the registry in memory as it was: after the call it is the registry
\* save_database has just stamped and written, with the same records and
\* version and with no key besides the four of a registry.
C26_ReadOnlyAnalysis ==
    [][(ReportCalls' # {} /\ ReportCalls = {}) =>
          /\ database' = Stamped(database)
          /\ DOMAIN database' = RegistryKeys
          /\ database'.proyectos = database.proyectos
          /\ database'.version = database.version
          /\ HoldsRegistry(database_file')
          /\ database' = RegistryIn(database_file')]_vars

\* the analysis has returned a group of identical projects and the registry in
\* memory is the one in the file
C26_Witness ==
    /\ run.phase = "exited"
    /\ ReportCalls # {}
    /\ similarities # NoneValue
    /\ Len(similarities[1].proyectos_identicos) = 1
    /\ HoldsRegistry(database_file)
    /\ database = RegistryIn(database_file)

\* C27: when the pass over a student directory ends as a failure (no
\* successful entry), the registry holds for that student what it held before
\* the pass.
C27_FailedLeavesRegistry ==
    [][(Len(run'.results) > Len(run.results) /\ run'.successful = run.successful) =>
          LET student == run'.results[Len(run'.results)][1]
          IN  /\ DictHas(database'.proyectos, student) = DictHas(database.proyectos, student)
              /\ DictHas(database.proyectos, student) =>
                    DictGet(database'.proyectos, student) = DictGet(database.proyectos, student)
      ]_vars

\* C28: the analysis is made at most once in a run, as the last call, right
\* after a save_database that returned and after every student directory has
\* been processed; the registry analysed holds the loaded records and those
\* entered in the run, and every pair of its students with equal
\* hash_proyecto is in a group of the result.
C28_AnalysisLast ==
    /\ Cardinality(ReportCalls) <= 1
    /\ similarities # NoneValue => ReportCalls # {}
    /\ \A i \in ReportCalls :
          /\ i = Len(hash_log)
          /\ i > 1
          /\ hash_log[i - 1] = SaveCall(FALSE)
          /\ run.pending = {}
          /\ DOMAIN entregas = {r[1] : r \in Range(run.results)}
          /\ LoadedRegistry
          /\ \A k \in 1..Len(run.loaded[1].proyectos) :
                DictHas(database.proyectos, run.loaded[1].proyectos[k][1])
          /\ \A j \in CallsOf("add_project") :
                DictHas(database.proyectos, hash_log[j].student_name)
          /\ ~hash_log[i].raised =>
                /\ similarities # NoneValue
                /\ report_file.complete
                /\ report_file.report[1].proyectos_identicos = similarities[1].proyectos_identicos
                /\ \A a, b \in Registered :
                      (a # b /\ RecordOf(a).hash_proyecto = RecordOf(b).hash_proyecto) =>
                          InSameGroup(a, b)

\* the analysis has been made on a registry holding a record loaded from the
\* file and a record entered in the run
C28_Witness ==
    /\ run.phase = "exited"
    /\ LoadedRegistry
    /\ run.loaded[1].proyectos # <<>>
    /\ Cardinality(CallsOf("add_project")) = 1
    /\ ReportCalls # {}
    /\ similarities # NoneValue
    /\ Len(database.proyectos) = 2
    /\ ~DictHas(run.loaded[1].proyectos, database.proyectos[2][1])

\* C29: as long as no submission of the run has succeeded, and so when the
\* run ends with successful = 0 or returns before the loop, the database file
\* and the report file are left as they were.
C29_NothingWrittenWithoutSuccess ==
    [][run'.successful = 0 =>
          /\ database_file' = database_file
          /\ report_file' = report_file]_vars

\* a run has ended without a successful submission after add_project was
\* called for one, and a registry and a report of an earlier run are on disk
C29_Witness ==
    /\ run.phase = "exited"
    /\ run.successful = 0
    /\ run.failed > 0
    /\ CallsOf("add_project") # {}
    /\ LoadedRegistry
    /\ database # run.loaded[1]
    /\ database_file = TextFile(json_dump(run.loaded[1]))
    /\ report_file = ReportFile(EarlierReport)

\* C30: a report written by the run has total_proyectos_analizados equal to
\* the number of records of the registry analysed, total_grupos_identicos
\* equal to the length of proyectos_identicos and total_copias_parciales equal
\* to the length of copias_parciales.
C30_ReportCounts ==
    (ReportCalls # {} /\ ~hash_log[Len(hash_log)].raised) =>
        /\ report_file.complete
        /\ LET report == report_file.report[1]
           IN  /\ report.total_proyectos_analizados = Len(database.proyectos)
               /\ report.total_grupos_identicos = Len(report.proyectos_identicos)
               /\ report.total_copias_parciales = Len(report.copias_parciales)

\* a report has been written in a run that had loaded a wrong total_proyectos
C30_Witness ==
    /\ ReportCalls # {}
    /\ ~hash_log[Len(hash_log)].raised
    /\ LoadedRegistry
    /\ run.loaded[1].total_proyectos = 7
    /\ report_file.complete
    /\ report_file.report[1].total_proyectos_analizados = 2

=============================================================================
